---- MODULE Spec2Model ----
(***************************************************************************)
(* Client portal authentication engine (portal-auth.js, v3.10): the        *)
(* session store, the magic-link token store and the Salesforce            *)
(* verification gateway, over a browser localStorage shared by all pages.  *)
(* Every exported function runs to completion (single-threaded event       *)
(* loop), so each call is one action; only fetch() completions interleave. *)
(* With it, two other parts of the site: the analytics event collector     *)
(* (analytics.js) and the settings worker (site-settings-sync.js).         *)
(***************************************************************************)
EXTENDS Integers, Sequences, FiniteSets, TLC

(* ---------- program constants ---------- *)
SESSION_DURATION == 24 * 60 * 60 * 1000
MAGIC_DURATION == 15 * 60 * 1000

(* ---------- bounds of the model ---------- *)
MaxTicks == 2      \* number of times the clock advances
MaxUuid == 2       \* number of magic-link tokens generated
MaxInflight == 1   \* fetches in flight at the same time
MaxRecords == 2    \* records in a CRM response
MaxTracks == 3     \* calls of siteAnalytics.track

(* Clock advances: one millisecond, one millisecond short of the token     *)
(* lifetime, and (for the session store alone) a whole session lifetime.   *)
TokenDeltas == {1, MAGIC_DURATION - 1}
Deltas == TokenDeltas \cup {SESSION_DURATION}

(* ---------- values ---------- *)
Null == "null"               \* the JS null of a string-valued field
Emails == {"", "nobody", "a@x.org", "b@x.org"}
ContactIds == {"003A"}
ContactNames == {"Jane Doe"}

\* mutant: every address taken to contain an "@"
HasAtAlways(email) == TRUE

\* email.includes("@")
HasAt(email) == email \in {"a@x.org", "b@x.org"}

\* A value of type "T | null" is a sequence of length at most one.
None == << >>
Some(v) == <<v>>
IsNone(o) == Len(o) = 0
Val(o) == o[1]

(* ---------- localStorage items ---------- *)
\* getItem(key) of an absent key
NoItem == [kind |-> "none", obj |-> None]
\* an item whose text is not JSON ("CORRUPT{{")
CorruptItem == [kind |-> "corrupt", obj |-> None]
\* JSON.stringify(o): the stored text of a value (o = None is the text "null")
Stringify(o) == [kind |-> "json", obj |-> o]
\* mutant: text that is not JSON parses to null
ParseNeverThrows(raw) ==
  IF raw.kind = "json" THEN [threw |-> FALSE, value |-> raw.obj]
  ELSE [threw |-> FALSE, value |-> None]
\* JSON.parse(raw): [threw, value]; JSON.parse(null) is null
Parse(raw) ==
  IF raw.kind = "corrupt" THEN [threw |-> TRUE, value |-> None]
  ELSE IF raw.kind = "none" THEN [threw |-> FALSE, value |-> None]
  ELSE [threw |-> FALSE, value |-> raw.obj]

VARIABLES
  sessionRaw,   \* localStorage[SESSION_KEY]
  magicRaw,     \* localStorage[MAGIC_KEY]
  configRaw,    \* localStorage[SF_CONFIG_KEY]
  now,          \* Date.now()
  ticks,        \* clock advances so far
  uuids,        \* magic-link tokens generated so far
  last,         \* the last call: [op, arg, ret, nav, removed]
  redeemed,     \* token value -> number of validateMagicToken calls that returned a session
  inflight,     \* fetches in flight, in the order they were started
  settled,      \* the last gateway promise that resolved, None before
  login,        \* the sign-in page: [state, email, message]
  contacts,     \* fetches of the two contact lookups in flight, in order
  analyticsRaw, \* localStorage[STORAGE_KEY] of analytics.js
  geoCacheRaw,  \* localStorage[GEO_CACHE_KEY]
  geoData,      \* _geoData of analytics.js
  geoFetches,   \* the callbacks of the ipapi.co fetches in flight, in order
  saved,        \* events saved since the event store was last empty
  tracked,      \* calls of track so far
  kv,           \* env.SETTINGS of the settings worker: key -> stored text
  adminToken,   \* env.ADMIN_TOKEN of the settings worker
  response      \* the last request to the settings worker and its response

analyticsVars == <<analyticsRaw, geoCacheRaw, geoData, geoFetches, saved, tracked>>
workerVars == <<kv, adminToken, response>>
siteVars == <<analyticsVars, workerVars>>
portalVars == <<sessionRaw, magicRaw, configRaw, now, ticks, uuids, last,
                redeemed, inflight, settled, login, contacts>>

vars == <<portalVars, siteVars>>

gatewayVars == <<inflight, settled, login, contacts>>

(* ---------- session helpers ---------- *)

\* mutant: the comparison written the wrong way round
SessionExpiredReversed(session, t) == t < session.expiresAt

\* mutant: a session taken as expired at the instant of expiresAt
SessionExpiredInclusive(session, t) == t >= session.expiresAt

\* Date.now() > session.expiresAt
SessionExpired(session, t) == t > session.expiresAt

\* mutant: getPortalSession without its expiry check
GetPortalSessionNoExpiry(raw, t) ==
  IF raw.kind = "none" THEN [ret |-> None, raw |-> raw, removed |-> 0]
  ELSE IF raw.kind = "corrupt" THEN [ret |-> None, raw |-> NoItem, removed |-> 29]
  ELSE IF IsNone(raw.obj) \/ ~Val(raw.obj).authenticated
    THEN [ret |-> None, raw |-> raw, removed |-> 0]
  ELSE [ret |-> raw.obj, raw |-> raw, removed |-> 0]

\* getPortalSession: the value returned, the item left in storage and the
\* line of the removeItem executed (0 when none)
GetPortalSession(raw, t) ==
  IF raw.kind = "none" THEN [ret |-> None, raw |-> raw, removed |-> 0]
  ELSE LET p == Parse(raw) IN
    IF p.threw THEN [ret |-> None, raw |-> NoItem, removed |-> 29]
    ELSE IF IsNone(p.value) \/ ~Val(p.value).authenticated
      THEN [ret |-> None, raw |-> raw, removed |-> 0]
    ELSE IF SessionExpired(Val(p.value), t)
      THEN [ret |-> None, raw |-> NoItem, removed |-> 24]
    ELSE [ret |-> p.value, raw |-> raw, removed |-> 0]

\* mutant: no default taken for an omitted field
OrElseFirst(x, y) == x

\* x || y on strings ("" is the falsy string; undefined is modelled as "")
OrElse(x, y) == IF x = "" THEN y ELSE x

\* the object literal of setPortalSession
NewSession(data, t, uuid) ==
  [authenticated |-> TRUE,
   method |-> OrElse(data.method, "unknown"),
   email |-> OrElse(data.email, ""),
   displayName |-> OrElse(data.displayName, OrElse(data.email, "")),
   contactId |-> OrElse(data.contactId, Null),
   contactName |-> OrElse(data.contactName, Null),
   token |-> IF data.token # 0 THEN data.token ELSE uuid,
   expiresAt |-> t + SESSION_DURATION]

\* mutant: every call passes a contact along
DataBound(method, email, displayName) ==
  [method |-> method, email |-> email, displayName |-> displayName,
   contactId |-> "003A", contactName |-> "Jane Doe", token |-> 0]

\* the data argument of a setPortalSession call; absent fields are "" / 0
Data(method, email, displayName) ==
  [method |-> method, email |-> email, displayName |-> displayName,
   contactId |-> "", contactName |-> "", token |-> 0]

\* mutant: the contact name also written over the display name
WithContactAndName(session, contactId, contactName) ==
  [session EXCEPT !.contactId = contactId, !.contactName = contactName,
                  !.displayName = contactName]

\* mutant: binding a contact also renews the session
WithContactRenewed(session, contactId, contactName) ==
  [session EXCEPT !.contactId = contactId, !.contactName = contactName,
                  !.expiresAt = @ + SESSION_DURATION]

\* session.contactId = contactId; session.contactName = contactName
WithContact(session, contactId, contactName) ==
  [session EXCEPT !.contactId = contactId, !.contactName = contactName]

(* ---------- magic-link token store ---------- *)

\* getMagicTokens: JSON.parse(getItem(MAGIC_KEY)) || [], [] when the parse throws
GetMagicTokens(raw) ==
  LET p == Parse(raw) IN
    IF p.threw \/ IsNone(p.value) THEN << >> ELSE Val(p.value)

\* mutant: a token still accepted at the instant it expires
TokenLiveInclusive(tok, t) == t <= tok.expiresAt

\* now < t.expiresAt
TokenLive(tok, t) == t < tok.expiresAt

\* mutant: the sweep empties the collection
FilterLiveKeepsNone(tokens, t) == << >>

\* mutant: the loop matches an entry whatever its age
MatchIndexAnyAge(tokens, token, t) ==
  LET hits == {i \in 1..Len(tokens) : tokens[i].token = token}
  IN IF hits = {} THEN 0 ELSE CHOOSE i \in hits : \A j \in hits : i <= j

\* the loop of validateMagicToken: index of the first live entry with this
\* value, 0 when the loop ends without a match
MatchIndex(tokens, token, t) ==
  LET hits == {i \in 1..Len(tokens) : tokens[i].token = token /\ TokenLive(tokens[i], t)}
  IN IF hits = {} THEN 0 ELSE CHOOSE i \in hits : \A j \in hits : i <= j

\* mutant: the matched token is not consumed
SpliceNothing(tokens, i) == tokens

\* tokens.splice(i, 1)
Splice(tokens, i) ==
  [k \in 1..(Len(tokens) - 1) |-> IF k < i THEN tokens[k] ELSE tokens[k + 1]]

\* tokens.filter(t => now < t.expiresAt)
FilterLive(tokens, t) == SelectSeq(tokens, LAMBDA tok : TokenLive(tok, t))

\* mutant: every token issued for one and the same address
PushTokenFixedEmail(tokens, token, email, t) ==
  Append(tokens, [token |-> token, email |-> "a@x.org", expiresAt |-> t + MAGIC_DURATION])

\* tokens.push({token, email, expiresAt: Date.now() + MAGIC_DURATION})
PushToken(tokens, token, email, t) ==
  Append(tokens, [token |-> token, email |-> email, expiresAt |-> t + MAGIC_DURATION])

\* the token collection validateMagicToken writes back
TokensAfterValidate(tokens, token, t) ==
  LET i == MatchIndex(tokens, token, t)
  IN FilterLive(IF i = 0 THEN tokens ELSE Splice(tokens, i), t)

(* ---------- calls ---------- *)
\* a call record: the function called, its token argument (validateMagicToken
\* only, else 0), the value it returned, the navigation it requested on
\* window.location ("" when none) and the source line of the
\* localStorage.removeItem(SESSION_KEY) it executed (0 when none)
Call(op, arg, ret, nav, removed) ==
  [op |-> op, arg |-> arg, ret |-> ret, nav |-> nav, removed |-> removed]

UnknownToken == 0 - 1    \* a well-formed value that was never issued
NoToken == 0             \* null or "" passed as the token

\* generateUUID(): a random 122-bit value. The values that become magic-link
\* tokens are numbered 1, 2, ... in the order they are drawn (Fresh); the one
\* setPortalSession draws for session.token is read by no function, and is
\* the one value SessionUuid, different from every magic-link token.
SessionUuid == 0 - 2
Fresh == uuids + 1

\* mutant: an item already stored is kept
SetItemIfAbsent(old, text) == IF old.kind = "none" THEN text ELSE old

\* localStorage.setItem(key, text): the item replaces the one stored before
SetItem(old, text) == text

\* window.portalAuth.getSession()
GetSession ==
  LET r == GetPortalSession(sessionRaw, now) IN
    /\ sessionRaw' = r.raw
    /\ last' = Call("getSession", 0, r.ret, "", r.removed)
    /\ UNCHANGED <<magicRaw, configRaw, now, ticks, uuids, redeemed>>
    /\ UNCHANGED gatewayVars
    /\ UNCHANGED siteVars

\* window.portalAuth.setSession(data)
SetSession(data) ==
  /\ LET s == NewSession(data, now, SessionUuid) IN
       /\ sessionRaw' = SetItem(sessionRaw, Stringify(Some(s)))
       /\ last' = Call("setSession", 0, Some(s), "", 0)
  /\ UNCHANGED <<magicRaw, configRaw, now, ticks, uuids, redeemed>>
  /\ UNCHANGED gatewayVars
  /\ UNCHANGED siteVars

\* window.portalAuth.updateSessionContact(contactId, contactName)
UpdateSessionContact(contactId, contactName) ==
  LET r == GetPortalSession(sessionRaw, now) IN
    /\ IF IsNone(r.ret)
         THEN /\ sessionRaw' = r.raw
              /\ last' = Call("updateSessionContact", 0, None, "", r.removed)
         ELSE LET s == WithContact(Val(r.ret), contactId, contactName) IN
              /\ sessionRaw' = SetItem(r.raw, Stringify(Some(s)))
              /\ last' = Call("updateSessionContact", 0, Some(s), "", 0)
    /\ UNCHANGED <<magicRaw, configRaw, now, ticks, uuids, redeemed>>
    /\ UNCHANGED gatewayVars
    /\ UNCHANGED siteVars

\* mutant: sign-out that navigates and leaves the record stored
ClearSessionKeepsItem ==
  /\ sessionRaw' = sessionRaw
  /\ last' = Call("clearSession", 0, None, "href:portal-login.html", 0)
  /\ UNCHANGED <<magicRaw, configRaw, now, ticks, uuids, redeemed>>
  /\ UNCHANGED gatewayVars
  /\ UNCHANGED siteVars

\* mutant: sign-out that also discards the outstanding magic links
ClearSessionRevokes ==
  /\ sessionRaw' = NoItem
  /\ magicRaw' = NoItem
  /\ last' = Call("clearSession", 0, None, "href:portal-login.html", 59)
  /\ UNCHANGED <<configRaw, now, ticks, uuids, redeemed>>
  /\ UNCHANGED gatewayVars
  /\ UNCHANGED siteVars

\* window.portalAuth.clearSession()
ClearSession ==
  /\ sessionRaw' = NoItem
  /\ last' = Call("clearSession", 0, None, "href:portal-login.html", 59)
  /\ UNCHANGED <<magicRaw, configRaw, now, ticks, uuids, redeemed>>
  /\ UNCHANGED gatewayVars
  /\ UNCHANGED siteVars

\* mutant: the sign-in page reached by an href assignment
RequireAuthHref ==
  LET r == GetPortalSession(sessionRaw, now) IN
    /\ sessionRaw' = r.raw
    /\ last' = Call("requireAuth", 0, r.ret,
                    IF IsNone(r.ret) THEN "href:portal-login.html" ELSE "", r.removed)
    /\ UNCHANGED <<magicRaw, configRaw, now, ticks, uuids, redeemed>>
    /\ UNCHANGED gatewayVars
    /\ UNCHANGED siteVars

\* window.portalAuth.requireAuth()
RequireAuth ==
  LET r == GetPortalSession(sessionRaw, now) IN
    /\ sessionRaw' = r.raw
    /\ last' = Call("requireAuth", 0, r.ret,
                    IF IsNone(r.ret) THEN "replace:portal-login.html" ELSE "", r.removed)
    /\ UNCHANGED <<magicRaw, configRaw, now, ticks, uuids, redeemed>>
    /\ UNCHANGED gatewayVars
    /\ UNCHANGED siteVars

\* the body of generateMagicToken: what it writes and returns
IssueToken(email) ==
  IF email = "" \/ ~HasAt(email)
    THEN /\ last' = Call("generateMagicToken", 0, None, "", 0)
         /\ UNCHANGED <<magicRaw, uuids>>
    ELSE /\ uuids < MaxUuid
         /\ magicRaw' = SetItem(magicRaw,
               Stringify(Some(PushToken(GetMagicTokens(magicRaw), Fresh, email, now))))
         /\ uuids' = uuids + 1
         /\ last' = Call("generateMagicToken", 0,
                         Some([token |-> Fresh, magicUrl |-> Fresh, to |-> email]), "", 0)

\* window.portalAuth.generateMagicToken(email)
GenerateMagicToken(email) ==
  /\ IssueToken(email)
  /\ UNCHANGED <<sessionRaw, configRaw, now, ticks, redeemed>>
  /\ UNCHANGED gatewayVars
  /\ UNCHANGED siteVars

\* window.portalAuth.validateMagicToken(token)
ValidateMagicToken(token) ==
  /\ IF token = NoToken
       THEN /\ last' = Call("validateMagicToken", token, None, "", 0)
            /\ UNCHANGED <<magicRaw, sessionRaw, redeemed>>
       ELSE LET tokens == GetMagicTokens(magicRaw)
                i == MatchIndex(tokens, token, now)
            IN /\ magicRaw' = SetItem(magicRaw,
                     Stringify(Some(TokensAfterValidate(tokens, token, now))))
               /\ IF i = 0
                    THEN /\ last' = Call("validateMagicToken", token, None, "", 0)
                         /\ UNCHANGED <<sessionRaw, redeemed>>
                    ELSE LET s == NewSession(Data("magic-link", tokens[i].email, tokens[i].email),
                                             now, SessionUuid)
                         IN /\ sessionRaw' = SetItem(sessionRaw, Stringify(Some(s)))
                            /\ redeemed' = [redeemed EXCEPT ![token] = @ + 1]
                            /\ last' = Call("validateMagicToken", token, Some(s), "", 0)
  /\ UNCHANGED <<configRaw, now, ticks, uuids>>
  /\ UNCHANGED gatewayVars
  /\ UNCHANGED siteVars

\* window.portalAuth.handleGoogleSignIn(response); payload is parseJwt's
\* result: None, or Some([email, name]) with "" for a missing field
HandleGoogleSignIn(payload) ==
  /\ IF IsNone(payload) \/ Val(payload).email = ""
       THEN /\ last' = Call("handleGoogleSignIn", 0, None, "", 0)
            /\ UNCHANGED sessionRaw
       ELSE /\ sessionRaw' = SetItem(sessionRaw, Stringify(Some(NewSession(
                  Data("google", Val(payload).email, OrElse(Val(payload).name, Val(payload).email)),
                  now, SessionUuid))))
            /\ last' = Call("handleGoogleSignIn", 0, None, "href:portal-dashboard.html", 0)
  /\ UNCHANGED <<magicRaw, configRaw, now, ticks, uuids, redeemed>>
  /\ UNCHANGED gatewayVars
  /\ UNCHANGED siteVars

(* ---------- Salesforce email verification ---------- *)

\* the stored CRM configuration: an object with an instanceUrl ("" when the
\* field is missing or empty)
Config(url) == [instanceUrl |-> url]
ConfigItems ==
  {NoItem, CorruptItem, Stringify(None),
   Stringify(Some(Config(""))), Stringify(Some(Config("https://sf.example")))}

\* getSalesforceConfig: JSON.parse(getItem(SF_CONFIG_KEY)) || null, null
\* when the parse throws
GetSalesforceConfig(raw) ==
  LET p == Parse(raw) IN IF p.threw THEN None ELSE p.value

\* mutant: the instance URL of the configuration is not looked at
NoLookupConfigOnly(config, email) == IsNone(config) \/ email = ""

\* !config || !config.instanceUrl || !email
NoLookup(config, email) ==
  IsNone(config) \/ Val(config).instanceUrl = "" \/ email = ""

\* the value of data.records in a parsed response body: undefined (no such
\* field), null, an array of len records, or a value without a length
\* (a number, a boolean, a plain object)
RecordsValues ==
  {[kind |-> k, len |-> 0] : k \in {"undefined", "null", "nolength"}}
    \cup {[kind |-> "array", len |-> n] : n \in 0..MaxRecords}

\* what resp.json() gives: a rejection (the text is not JSON), a falsy value
\* (null), or an object with its records value
Body(json, records) == [json |-> json, records |-> records]
NoRecords == [kind |-> "undefined", len |-> 0]
Bodies ==
  {Body("invalid", NoRecords), Body("null", NoRecords)}
    \cup {Body("object", r) : r \in RecordsValues}

\* how fetch() settles: it rejects, or resolves to a response
Outcomes ==
  {[kind |-> "throw", ok |-> FALSE, body |-> Body("invalid", NoRecords)]}
    \cup {[kind |-> "response", ok |-> o, body |-> b] : o \in BOOLEAN, b \in Bodies}

Result(verified, source) == [verified |-> verified, source |-> source]
NoResult == Result(FALSE, "")

\* a settled promise of the chain
Fulfilled(data, result) == [state |-> "fulfilled", data |-> data, result |-> result]
Rejected == [state |-> "rejected", data |-> Body("invalid", NoRecords), result |-> NoResult]

\* .then(function(resp) {...}): a non-OK response passes the fallback result
\* object on as the data (an object without a records field)
OnResponse(resp) ==
  IF ~resp.ok THEN Fulfilled(Body("object", NoRecords), NoResult)
  ELSE IF resp.body.json = "invalid" THEN Rejected
  ELSE Fulfilled(resp.body, NoResult)

\* .then(function(data) {...}): data.records.length throws on null and is
\* undefined (not > 0) on a value without a length
OnData(data) ==
  IF data.json = "object" /\ data.records.kind # "undefined"
    THEN IF data.records.kind = "null" THEN Rejected
         ELSE IF data.records.kind = "array" /\ data.records.len > 0
           THEN Fulfilled(data, Result(TRUE, "salesforce"))
         ELSE Fulfilled(data, Result(FALSE, "salesforce"))
    ELSE Fulfilled(data, Result(TRUE, "fallback"))

\* .catch(function() {...})
OnError == Result(TRUE, "fallback")

\* the value verifyEmail's promise resolves to when its fetch settles
VerifyChain(outcome) ==
  LET p1 == IF outcome.kind = "throw" THEN Rejected ELSE OnResponse(outcome)
      p2 == IF p1.state = "rejected" THEN Rejected ELSE OnData(p1.data)
  IN IF p2.state = "rejected" THEN OnError ELSE p2.result

\* a resolved verifyEmail promise: the email, whether an instance URL was
\* configured at the call, whether a fetch was made, how it settled, the value
Settled(email, configured, fetched, outcome, result, owner) ==
  [email |-> email, configured |-> configured, fetched |-> fetched,
   outcome |-> outcome, result |-> result, owner |-> owner]
NoOutcome == [kind |-> "none", ok |-> FALSE, body |-> Body("invalid", NoRecords)]

Configured(config) == ~IsNone(config) /\ Val(config).instanceUrl # ""

\* the synchronous part of verifyEmail(email), called by owner
StartVerify(email, owner) ==
  LET config == GetSalesforceConfig(configRaw) IN
    IF NoLookup(config, email)
      THEN /\ settled' = Some(Settled(email, Configured(config), FALSE, NoOutcome,
                                      Result(TRUE, "local"), owner))
           /\ UNCHANGED inflight
      ELSE /\ Len(inflight) < MaxInflight
           /\ inflight' = Append(inflight, [email |-> email, owner |-> owner,
                                            configured |-> Configured(config)])
           /\ UNCHANGED settled

\* window.portalAuth.verifyEmail(email), called by any page
VerifyEmail(email) ==
  /\ StartVerify(email, "api")
  /\ UNCHANGED <<sessionRaw, magicRaw, configRaw, now, ticks, uuids, last, redeemed, login>>
  /\ UNCHANGED contacts
  /\ UNCHANGED siteVars

(* ---------- Salesforce contact lookups ---------- *)

\* the value a lookup promise carries: an array of len contacts, null, or
\* one contact
ContactArray(len) == [kind |-> "array", len |-> len]
NullContact == [kind |-> "null", len |-> 0]
OneContact == [kind |-> "contact", len |-> 1]

\* what each lookup returns when it has nothing: [] and null
Nothing(fn) == IF fn = "fetchAllContacts" THEN ContactArray(0) ELSE NullContact

\* a settled promise of a lookup's chain
Promise(state, value) == [state |-> state, value |-> value]

\* .then(function(resp) {...}): a non-OK response passes [] (an object
\* without a records field) or null on as the data
ContactsOnResponse(fn, resp) ==
  IF ~resp.ok
    THEN Fulfilled(IF fn = "fetchAllContacts" THEN Body("object", NoRecords)
                   ELSE Body("null", NoRecords), NoResult)
  ELSE IF resp.body.json = "invalid" THEN Rejected
  ELSE Fulfilled(resp.body, NoResult)

\* .then(function(data) {...}): data && data.records && data.records.length > 0
ContactsOnData(fn, data) ==
  IF data.json = "object" /\ data.records.kind = "array" /\ data.records.len > 0
    THEN Promise("fulfilled", IF fn = "fetchAllContacts"
                                THEN ContactArray(data.records.len) ELSE OneContact)
    ELSE Promise("fulfilled", Nothing(fn))

\* mutant: a chain without its catch
ContactsCatchNothing(fn, p) == p

\* .catch(function() {...})
ContactsCatch(fn, p) ==
  IF p.state = "rejected" THEN Promise("fulfilled", Nothing(fn)) ELSE p

\* the promise a lookup returns, once its fetch has settled
ContactsChain(fn, outcome) ==
  LET p1 == IF outcome.kind = "throw" THEN Rejected ELSE ContactsOnResponse(fn, outcome)
      p2 == IF p1.state = "rejected" THEN Promise("rejected", Nothing(fn))
            ELSE ContactsOnData(fn, p1.data)
  IN ContactsCatch(fn, p2)

\* a settled lookup promise: the function and its argument, whether a fetch
\* was made, how it settled, and the promise
ContactsSettled(fn, arg, fetched, outcome, promise) ==
  [fn |-> fn, arg |-> arg, fetched |-> fetched, outcome |-> outcome,
   state |-> promise.state, value |-> promise.value]

\* the synchronous part of fetchAllContacts(arg) and fetchContactById(arg)
StartContacts(fn, arg) ==
  /\ IF NoLookup(GetSalesforceConfig(configRaw), arg)
       THEN /\ settled' = Some(ContactsSettled(fn, arg, FALSE, NoOutcome,
                                               Promise("fulfilled", Nothing(fn))))
            /\ UNCHANGED contacts
       ELSE /\ Len(contacts) < MaxInflight
            /\ contacts' = Append(contacts, [fn |-> fn, arg |-> arg])
            /\ UNCHANGED settled
  /\ UNCHANGED <<sessionRaw, magicRaw, configRaw, now, ticks, uuids, last, redeemed,
                 inflight, login>>
  /\ UNCHANGED siteVars

\* window.portalAuth.fetchAllContacts(email)
FetchAllContacts(email) == StartContacts("fetchAllContacts", email)

\* window.portalAuth.fetchContactById(contactId)
FetchContactById(contactId) == StartContacts("fetchContactById", contactId)

\* mutant: the completion of a lookup discards the stored session and tokens
ContactsSettleClears(i, outcome) ==
  /\ i \in 1..Len(contacts)
  /\ settled' = Some(ContactsSettled(contacts[i].fn, contacts[i].arg, TRUE, outcome,
                                      ContactsChain(contacts[i].fn, outcome)))
  /\ contacts' = Splice(contacts, i)
  /\ last' = Call(contacts[i].fn, 0, None, "", 0)
  /\ sessionRaw' = NoItem
  /\ magicRaw' = NoItem
  /\ UNCHANGED <<configRaw, now, ticks, uuids, redeemed, inflight, login>>
  /\ UNCHANGED siteVars

\* the fetch of the i-th lookup in flight settles and its promise chain runs
ContactsSettle(i, outcome) ==
  /\ i \in 1..Len(contacts)
  /\ settled' = Some(ContactsSettled(contacts[i].fn, contacts[i].arg, TRUE, outcome,
                                      ContactsChain(contacts[i].fn, outcome)))
  /\ contacts' = Splice(contacts, i)
  /\ last' = Call(contacts[i].fn, 0, None, "", 0)
  /\ UNCHANGED <<sessionRaw, magicRaw, configRaw, now, ticks, uuids, redeemed,
                 inflight, login>>
  /\ UNCHANGED siteVars

(* ---------- the sign-in page ---------- *)

\* mutant: the link is issued whatever the verification said
LoginOnVerifiedAlways(email, result) ==
  /\ IssueToken(email)
  /\ login' = [state |-> IF result.verified THEN "LinkIssued" ELSE "Anonymous",
               email |-> email, message |-> ""]

\* the continuation of the page's verifyEmail call: a link is issued for a
\* verified address, "not found" is shown otherwise
LoginOnVerified(email, result) ==
  IF result.verified
    THEN /\ IssueToken(email)
         /\ login' = [state |-> "LinkIssued", email |-> email, message |-> ""]
    ELSE /\ login' = [state |-> "Anonymous", email |-> "", message |-> "not-found"]
         /\ UNCHANGED <<magicRaw, uuids, last>>

\* the form is submitted: a malformed address is rejected before any network
\* call; a result that is there at once (no lookup) is acted on at once
SubmitEmail(email) ==
  /\ login.state \in {"Anonymous", "LinkIssued"}
  /\ IF email = "" \/ ~HasAt(email)
       THEN /\ login' = [state |-> "Anonymous", email |-> "", message |-> "invalid-email"]
            /\ UNCHANGED <<magicRaw, uuids, last, inflight, settled>>
       ELSE /\ StartVerify(email, "login")
            /\ IF NoLookup(GetSalesforceConfig(configRaw), email)
                 THEN LoginOnVerified(email, Result(TRUE, "local"))
                 ELSE /\ login' = [state |-> "Verifying", email |-> email, message |-> ""]
                      /\ UNCHANGED <<magicRaw, uuids, last>>
  /\ UNCHANGED <<sessionRaw, configRaw, now, ticks, redeemed, contacts>>
  /\ UNCHANGED siteVars

\* the fetch of the i-th verifyEmail call in flight settles: the promise
\* chain runs, and then the continuation of the page that made the call
FetchSettles(i, outcome) ==
  /\ i \in 1..Len(inflight)
  /\ LET req == inflight[i]
         result == VerifyChain(outcome)
     IN /\ settled' = Some(Settled(req.email, req.configured, TRUE, outcome, result,
                                   req.owner))
        /\ inflight' = Splice(inflight, i)
        /\ IF req.owner = "login"
             THEN LoginOnVerified(req.email, result)
             ELSE UNCHANGED <<magicRaw, uuids, last, login>>
  /\ UNCHANGED <<sessionRaw, configRaw, now, ticks, redeemed, contacts>>
  /\ UNCHANGED siteVars

(* ---------- environment ---------- *)

\* the admin page (or a test) stores, replaces or removes the CRM configuration
SaveConfig(item) ==
  /\ configRaw # item
  /\ configRaw' = item
  /\ UNCHANGED <<sessionRaw, magicRaw, now, ticks, uuids, last, redeemed>>
  /\ UNCHANGED gatewayVars
  /\ UNCHANGED siteVars


\* time passes between two calls
Tick(d) ==
  /\ ticks < MaxTicks
  /\ now' = now + d
  /\ ticks' = ticks + 1
  /\ UNCHANGED <<sessionRaw, magicRaw, configRaw, uuids, last, redeemed>>
  /\ UNCHANGED gatewayVars
  /\ UNCHANGED siteVars

\* a session item that is no live session: unparseable text, the text
\* "null", or an object without a true authenticated flag
Unauthenticated ==
  [authenticated |-> FALSE, method |-> "", email |-> "", displayName |-> "",
   contactId |-> Null, contactName |-> Null, token |-> 0, expiresAt |-> 0]
DeadItems == {CorruptItem, Stringify(None), Stringify(Some(Unauthenticated))}

\* localStorage.setItem(SESSION_KEY, text) by another script of the origin
OverwriteSessionItem(item) ==
  /\ sessionRaw # item
  /\ sessionRaw' = item
  /\ last' = Call("setItem", 0, None, "", 0)
  /\ UNCHANGED <<magicRaw, configRaw, now, ticks, uuids, redeemed>>
  /\ UNCHANGED gatewayVars
  /\ UNCHANGED siteVars

(* ---------- analytics.js: the event collector ---------- *)

MAX_EVENTS == 500
GEO_CACHE_TTL == 86400000

\* the event types counted by the two totals
EventTypes == {"book_click", "form_submission"}

\* the object pushed by save(geo): its type, the city of the geo data it
\* was saved with, and n, its rank among the events saved into this store
Event(type, geo, n) ==
  [type |-> type, city |-> IF IsNone(geo) THEN "" ELSE Val(geo), n |-> n]

\* getAnalyticsData().events: JSON.parse(item || "null") || { events: [] },
\* { events: [] } when the parse throws
GetAnalyticsData(raw) ==
  LET p == Parse(raw) IN
    IF p.threw \/ IsNone(p.value) THEN << >> ELSE Val(p.value).events

\* mutant: the oldest n events kept
SliceFirst(events, n) ==
  IF Len(events) > n THEN SubSeq(events, 1, n) ELSE events

\* events.slice(-n)
SliceLast(events, n) ==
  IF Len(events) > n THEN SubSeq(events, Len(events) - n + 1, Len(events)) ELSE events

\* saveAnalyticsData(data): the item stored
SaveAnalyticsData(events) ==
  Stringify(Some([events |-> IF Len(events) > MAX_EVENTS
                               THEN SliceLast(events, MAX_EVENTS) ELSE events]))

\* siteAnalytics.getEvents()
GetEvents(raw) == GetAnalyticsData(raw)

\* the number of events of a type
CountType(events, type) ==
  Cardinality({i \in 1..Len(events) : events[i].type = type})

\* siteAnalytics.getTotalBookClicks()
GetTotalBookClicks(raw) == CountType(GetEvents(raw), "book_click")

\* siteAnalytics.getTotalSubmissions()
GetTotalSubmissions(raw) == CountType(GetEvents(raw), "form_submission")

\* the stored geo cache: { data, ts }
GeoCache(city, ts) == Stringify(Some([data |-> city, ts |-> ts]))

\* cached && cached.ts && (Date.now() - cached.ts < GEO_CACHE_TTL), false
\* when the parse throws
CacheFresh(raw, t) ==
  LET p == Parse(raw) IN
    /\ ~p.threw
    /\ ~IsNone(p.value)
    /\ Val(p.value).ts # 0
    /\ t - Val(p.value).ts < GEO_CACHE_TTL

\* the callbacks passed to fetchGeo: the empty one of the module's load,
\* and track's function(geo) { save(geo); }
NoopCallback == [cb |-> "noop", type |-> ""]
SaveCallback(type) == [cb |-> "save", type |-> type]

\* save(geo) inside track(type, meta)
Save(type, geo) ==
  /\ analyticsRaw' = SaveAnalyticsData(
        Append(GetAnalyticsData(analyticsRaw), Event(type, geo, saved + 1)))
  /\ saved' = saved + 1

\* siteAnalytics.track(type, meta), fetchGeo included
Track(type) ==
  /\ tracked < MaxTracks
  /\ tracked' = tracked + 1
  /\ IF ~IsNone(geoData)
       THEN /\ Save(type, geoData)
            /\ UNCHANGED <<geoData, geoFetches>>
       ELSE IF CacheFresh(geoCacheRaw, now)
         THEN /\ geoData' = Some(Val(Parse(geoCacheRaw).value).data)
              /\ Save(type, geoData')
              /\ UNCHANGED geoFetches
         ELSE /\ geoFetches' = Append(geoFetches, SaveCallback(type))
              /\ UNCHANGED <<analyticsRaw, saved, geoData>>
  /\ UNCHANGED geoCacheRaw
  /\ UNCHANGED <<portalVars, workerVars>>

\* the i-th ipapi.co fetch in flight settles: the two then handlers run
\* (ok), or the catch handler does (the fetch or res.json() rejected)
GeoSettles(i, ok) ==
  /\ i \in 1..Len(geoFetches)
  /\ LET geo == IF ok THEN Some("Boston") ELSE Some("Unknown") IN
       /\ geoData' = geo
       /\ geoCacheRaw' = IF ok THEN GeoCache(Val(geo), now) ELSE geoCacheRaw
       /\ IF geoFetches[i].cb = "save"
            THEN Save(geoFetches[i].type, geo)
            ELSE UNCHANGED <<analyticsRaw, saved>>
  /\ geoFetches' = Splice(geoFetches, i)
  /\ UNCHANGED tracked
  /\ UNCHANGED <<portalVars, workerVars>>

\* siteAnalytics.clearAll()
ClearAll ==
  /\ analyticsRaw # NoItem
  /\ analyticsRaw' = NoItem
  /\ saved' = 0
  /\ UNCHANGED <<geoCacheRaw, geoData, geoFetches, tracked>>
  /\ UNCHANGED <<portalVars, workerVars>>

(* ---------- site-settings-sync.js: the settings worker ---------- *)

ALLOWED_KEYS ==
  {"siteSettings", "siteNavFooterSettings", "siteDesignSettings", "sitePageToggles",
   "siteBusinessHours", "siteContactConfig", "siteClockSettings", "siteTranslation",
   "siteSuccessRibbon", "siteOfficeLocations", "bentoTiles", "sitePages", "sitePosts",
   "siteStaff", "siteTestimonials", "siteLocations", "siteCareers", "sitePathFinder"}

\* the keys named by requests: two of the whitelist and one outside it
RequestKeys == {"siteSettings", "sitePages", "evil"}

\* the KV namespace: key -> stored text, None for a key that is not stored
EmptyStore == [k \in RequestKeys |-> None]

\* mutant: every key taken to be on the whitelist
AllowedAny(key) == TRUE

\* ALLOWED_KEYS.has(key)
Allowed(key) == key \in ALLOWED_KEYS

\* an Authorization header: whether it starts with "Bearer" and white space
\* (in any case), and the text after that prefix (the whole text without it)
Header(bearer, rest) == [bearer |-> bearer, rest |-> rest]

\* (request.headers.get("Authorization") || "").replace(/^Bearer\s+/i, "")
Token(auth) == IF IsNone(auth) THEN "" ELSE Val(auth).rest

\* mutant: the check without its test for an empty token
CheckAuthTokenOnly(auth, admin) == Some(Token(auth)) # admin

\* checkAuth answers 401: !token || token !== env.ADMIN_TOKEN (admin is
\* None when the secret is not configured)
CheckAuth(auth, admin) == Token(auth) = "" \/ Some(Token(auth)) # admin

\* a value of a bulk body: a JSON string, or another JSON value with its
\* JSON text
StringValue(str) == [type |-> "string", str |-> str, json |-> "quoted"]
JsonValue(json) == [type |-> "other", str |-> "", json |-> json]

\* typeof value === "string" ? value : JSON.stringify(value)
ValText(value) == IF value.type = "string" THEN value.str ELSE value.json

\* a request body: none, text that is not JSON, the JSON text null, or a
\* JSON object given by its entries in order
NoBody == [kind |-> "none", entries |-> << >>, text |-> ""]
TextBody(text) == [kind |-> "invalid", entries |-> << >>, text |-> text]
NullBody == [kind |-> "null", entries |-> << >>, text |-> "null"]
ObjectBody(entries) == [kind |-> "object", entries |-> entries, text |-> "object"]
Entry(key, value) == [key |-> key, value |-> value]

\* the loop of the bulk write: the store after the entries
RECURSIVE BulkPut(_, _)
BulkPut(store, entries) ==
  IF entries = << >> THEN store
  ELSE LET e == Head(entries) IN
    BulkPut(IF ~Allowed(e.key) THEN store
            ELSE [store EXCEPT ![e.key] = Some(ValText(e.value))],
            Tail(entries))

\* the keys of the entries, in order
Keys(entries) == [i \in 1..Len(entries) |-> entries[i].key]

\* the written and rejected arrays of the bulk write
WrittenKeys(entries) == SelectSeq(Keys(entries), LAMBDA k : Allowed(k))
RejectedKeys(entries) == SelectSeq(Keys(entries), LAMBDA k : ~Allowed(k))

\* a request: method, route ("all" is /settings, "key" is /settings/<key>,
\* "other" any other path), Authorization header and body
Req(method, path, key, auth, body) ==
  [method |-> method, path |-> path, key |-> key, auth |-> auth, body |-> body]

\* what a request leaves: the store and the response
Reply(store, status, written, rejected) ==
  [kv |-> store, status |-> status, written |-> written, rejected |-> rejected]

\* fetch(request, env)
Fetch(store, admin, req) ==
  IF req.method = "OPTIONS" THEN Reply(store, 204, << >>, << >>)
  ELSE IF req.method = "GET" /\ req.path = "all" THEN Reply(store, 200, << >>, << >>)
  ELSE IF req.method = "GET" /\ req.path = "key"
    THEN IF ~Allowed(req.key) THEN Reply(store, 400, << >>, << >>)
         ELSE IF IsNone(store[req.key]) THEN Reply(store, 404, << >>, << >>)
         ELSE Reply(store, 200, << >>, << >>)
  ELSE IF CheckAuth(req.auth, admin) THEN Reply(store, 401, << >>, << >>)
  ELSE IF req.method = "PUT" /\ req.path = "all"
    THEN IF req.body.kind \in {"none", "invalid"} THEN Reply(store, 400, << >>, << >>)
         ELSE IF req.body.kind = "null" THEN Reply(store, 500, << >>, << >>)
         ELSE Reply(BulkPut(store, req.body.entries), 200,
                    WrittenKeys(req.body.entries), RejectedKeys(req.body.entries))
  ELSE IF req.method = "PUT" /\ req.path = "key"
    THEN IF ~Allowed(req.key) THEN Reply(store, 400, << >>, << >>)
         ELSE Reply([store EXCEPT ![req.key] = Some(req.body.text)], 200, << >>, << >>)
  ELSE IF req.method = "DELETE" /\ req.path = "key"
    THEN IF ~Allowed(req.key) THEN Reply(store, 400, << >>, << >>)
         ELSE Reply([store EXCEPT ![req.key] = None], 200, << >>, << >>)
  ELSE Reply(store, 404, << >>, << >>)

\* the worker handles one request
Request(req) ==
  LET r == Fetch(kv, adminToken, req) IN
    /\ kv' = r.kv
    /\ response' = Some([req |-> req, status |-> r.status,
                         written |-> r.written, rejected |-> r.rejected])
    /\ UNCHANGED adminToken
    /\ UNCHANGED <<portalVars, analyticsVars>>

(* ---------- inputs ---------- *)
SessionData ==
  {Data("", "a@x.org", ""),
   [Data("google", "", "Maria") EXCEPT !.contactId = "003B", !.contactName = "Bo", !.token = 77]}
JwtPayloads == {None, Some([email |-> "", name |-> "N"]), Some([email |-> "a@x.org", name |-> ""])}
TokenArgs == {NoToken, UnknownToken} \cup 1..uuids

NoCall == Call("none", 0, None, "", 0)

\* the portal pages loaded at time t over an empty localStorage
PortalAt(t) ==
  /\ sessionRaw = NoItem
  /\ magicRaw = NoItem
  /\ configRaw = NoItem
  /\ now = t
  /\ ticks = 0
  /\ uuids = 0
  /\ last = NoCall
  /\ redeemed = [v \in 1..MaxUuid |-> 0]
  /\ inflight = << >>
  /\ settled = None
  /\ login = [state |-> "Anonymous", email |-> "", message |-> ""]
  /\ contacts = << >>

InitPortal == PortalAt(0)

\* a page that does not load analytics.js
NoAnalytics ==
  /\ analyticsRaw = NoItem
  /\ geoCacheRaw = NoItem
  /\ geoData = None
  /\ geoFetches = << >>
  /\ saved = 0
  /\ tracked = 0

\* no request has reached the settings worker
NoWorker ==
  /\ kv = EmptyStore
  /\ adminToken = None
  /\ response = None

Init == InitPortal /\ NoAnalytics /\ NoWorker

Next ==
  \/ GetSession
  \/ \E data \in SessionData : SetSession(data)
  \/ \E c \in ContactIds, n \in ContactNames : UpdateSessionContact(c, n)
  \/ ClearSession
  \/ RequireAuth
  \/ \E e \in Emails : GenerateMagicToken(e)
  \/ \E t \in TokenArgs : ValidateMagicToken(t)
  \/ \E p \in JwtPayloads : HandleGoogleSignIn(p)
  \/ \E d \in TokenDeltas : Tick(d)

\* every function of the session and token stores, called in any order
\* from any page of the origin
Spec == Init /\ [][Next]_vars

NextTokens ==
  \/ \E data \in SessionData : SetSession(data)
  \/ ClearSession
  \/ \E e \in Emails : GenerateMagicToken(e)
  \/ \E t \in TokenArgs : ValidateMagicToken(t)
  \/ \E p \in JwtPayloads : HandleGoogleSignIn(p)
  \/ \E d \in TokenDeltas : Tick(d)

\* the token store and the calls that create or remove a session, over a
\* token lifetime
SpecTokens == Init /\ [][NextTokens]_vars

NextSession ==
  \/ GetSession
  \/ \E data \in SessionData : SetSession(data)
  \/ \E c \in ContactIds, n \in ContactNames : UpdateSessionContact(c, n)
  \/ ClearSession
  \/ RequireAuth
  \/ \E p \in JwtPayloads : HandleGoogleSignIn(p)
  \/ \E d \in Deltas : Tick(d)
  \/ \E item \in DeadItems : OverwriteSessionItem(item)
  \/ \E t \in TokenArgs : ValidateMagicToken(t)

NextGateway ==
  \/ \E item \in ConfigItems : SaveConfig(item)
  \/ \E e \in Emails : VerifyEmail(e)
  \/ \E e \in Emails : SubmitEmail(e)
  \/ \E i \in 1..MaxInflight, o \in Outcomes : FetchSettles(i, o)

\* email verification against the CRM and the sign-in page that uses it
SpecGateway == Init /\ [][NextGateway]_vars

\* the arguments of the lookups: an email, a contact id, or nothing
LookupEmails == {"", "a@x.org"}
LookupIds == {""} \cup ContactIds

NextContacts ==
  \/ \E item \in ConfigItems : SaveConfig(item)
  \/ \E e \in Emails : VerifyEmail(e)
  \/ \E i \in 1..MaxInflight, o \in Outcomes : FetchSettles(i, o)
  \/ \E e \in LookupEmails : FetchAllContacts(e)
  \/ \E c \in LookupIds : FetchContactById(c)
  \/ \E i \in 1..MaxInflight, o \in Outcomes : ContactsSettle(i, o)

\* the three gateway calls, under every stored configuration and every way
\* their fetches settle
SpecContacts == Init /\ [][NextContacts]_vars

\* a portal page with the CRM configured, signed in as one client
LateConfigItems == {Stringify(Some(Config("https://sf.example")))}
LateEmails == {"a@x.org"}
\* how the fetches settle there: a transport error, or a response, OK or
\* not, with no record or one
LateOutcomes ==
  {o \in Outcomes :
     \/ o.kind = "throw"
     \/ /\ o.body.json = "object"
        /\ o.body.records.kind = "array"
        /\ o.body.records.len <= 1}

NextLate ==
  \/ \E item \in LateConfigItems : SaveConfig(item)
  \/ \E e \in LateEmails : VerifyEmail(e)
  \/ \E i \in 1..MaxInflight, o \in LateOutcomes : FetchSettles(i, o)
  \/ \E e \in LateEmails : FetchAllContacts(e)
  \/ \E c \in ContactIds : FetchContactById(c)
  \/ \E i \in 1..MaxInflight, o \in LateOutcomes : ContactsSettle(i, o)
  \/ \E data \in SessionData : SetSession(data)
  \/ ClearSession
  \/ GetSession
  \/ \E d \in {1, SESSION_DURATION} : Tick(d)

\* the three gateway calls in flight while the session is created, read,
\* cleared and left to expire
SpecLate == Init /\ [][NextLate]_vars

NextBinding ==
  \/ \E data \in SessionData : SetSession(data)
  \/ \E c \in ContactIds, n \in ContactNames : UpdateSessionContact(c, n)
  \/ ClearSession
  \/ \E e \in LateEmails : GenerateMagicToken(e)
  \/ \E t \in TokenArgs : ValidateMagicToken(t)
  \/ \E d \in TokenDeltas : Tick(d)

\* magic links redeemed over sessions that are bound to a contact or not
SpecBinding == Init /\ [][NextBinding]_vars

NextBoundary ==
  \/ GetSession
  \/ \E data \in SessionData : SetSession(data)
  \/ \E e \in LateEmails : GenerateMagicToken(e)
  \/ \E t \in TokenArgs : ValidateMagicToken(t)
  \/ \E d \in Deltas : Tick(d)

\* sessions and magic links read at, before and after their expiry instants
SpecBoundary == Init /\ [][NextBoundary]_vars

\* the sessions of two clients signed in by magic link
AttachSessions ==
  {Data("magic-link", "a@x.org", "a@x.org"), Data("magic-link", "b@x.org", "b@x.org")}

\* the email of the live session, "" when there is none
LiveEmail ==
  LET r == GetPortalSession(sessionRaw, now).ret IN
    IF IsNone(r) THEN "" ELSE Val(r).email

NextAttach ==
  \/ \E item \in LateConfigItems : SaveConfig(item)
  \/ \E data \in AttachSessions : SetSession(data)
  \/ ClearSession
  \/ \E d \in {1, SESSION_DURATION} : Tick(d)
  \/ \E e \in LateEmails : LiveEmail = e /\ FetchAllContacts(e)
  \/ \E i \in 1..MaxInflight, o \in LateOutcomes : ContactsSettle(i, o)
  \/ \E c \in ContactIds, n \in ContactNames : UpdateSessionContact(c, n)

\* a signed-in client's contacts are looked up by the session's email and
\* the contact found is attached, while sessions come and go
SpecAttach == Init /\ [][NextAttach]_vars

\* the time the page is loaded: more than a cache lifetime after the epoch
PageLoad == GEO_CACHE_TTL + 2

\* the event store a page finds: none, unparseable text, or one event short
\* of the cap
StoredEvents == [i \in 1..(MAX_EVENTS - 1) |-> Event("book_click", Some("Boston"), i)]
AnalyticsItems == {NoItem, CorruptItem, SaveAnalyticsData(StoredEvents)}

\* the geo cache a page finds: none, unparseable text, one that is exactly
\* a cache lifetime old, and one that is a millisecond younger
GeoCacheItems ==
  {NoItem, CorruptItem, GeoCache("Boston", 2), GeoCache("Boston", 3)}

\* analytics.js has been loaded: fetchGeo(function() {}) has run
InitAnalytics ==
  /\ PortalAt(PageLoad)
  /\ NoWorker
  /\ analyticsRaw \in AnalyticsItems
  /\ saved = Len(GetAnalyticsData(analyticsRaw))
  /\ tracked = 0
  /\ geoCacheRaw \in GeoCacheItems
  /\ IF CacheFresh(geoCacheRaw, now)
       THEN /\ geoData = Some(Val(Parse(geoCacheRaw).value).data)
            /\ geoFetches = << >>
       ELSE /\ geoData = None
            /\ geoFetches = <<NoopCallback>>

NextAnalytics ==
  \/ \E type \in EventTypes : Track(type)
  \/ ClearAll
  \/ \E i \in 1..(MaxTracks + 1), ok \in BOOLEAN : GeoSettles(i, ok)

\* the event collector of a page, with its geo lookups settling in any
\* order or not at all
SpecAnalytics == InitAnalytics /\ [][NextAnalytics]_vars

\* the secret of the deployment: not configured, empty, or set
AdminTokens == {None, Some(""), Some("secret")}

\* the Authorization headers of requests: none, a Bearer header with an
\* empty, the right or a wrong token, and the bare secret
AuthHeaders ==
  {None, Some(Header(TRUE, "")), Some(Header(TRUE, "secret")),
   Some(Header(TRUE, "wrong")), Some(Header(FALSE, "secret"))}

\* the routes requested
Routes ==
  {[path |-> "all", key |-> ""], [path |-> "other", key |-> ""]}
    \cup {[path |-> "key", key |-> k] : k \in RequestKeys}

\* the bodies of bulk writes
BulkBodies ==
  {NoBody, TextBody("{bad"), NullBody, ObjectBody(<< >>),
   ObjectBody(<<Entry("evil", StringValue("v1"))>>),
   ObjectBody(<<Entry("siteSettings", StringValue("v1"))>>),
   ObjectBody(<<Entry("siteSettings", JsonValue("5")), Entry("evil", StringValue("v1"))>>),
   ObjectBody(<<Entry("evil", JsonValue("5")), Entry("sitePages", StringValue("v1"))>>),
   ObjectBody(<<Entry("sitePages", JsonValue("5")), Entry("siteSettings", StringValue("v1"))>>)}

\* the bodies of single-key writes: any text
TextBodies == {TextBody("{bad"), TextBody("v1")}

Requests ==
  {Req(m, r.path, r.key, a, NoBody) :
     m \in {"OPTIONS", "GET", "DELETE", "POST"}, r \in Routes, a \in AuthHeaders}
    \cup {Req("PUT", "all", "", a, b) : a \in AuthHeaders, b \in BulkBodies}
    \cup {Req("PUT", "key", k, a, b) : k \in RequestKeys, a \in AuthHeaders, b \in TextBodies}
    \cup {Req("PUT", "other", "", a, NoBody) : a \in AuthHeaders}

\* a deployed worker whose namespace holds whitelisted keys only
InitWorker ==
  /\ InitPortal
  /\ NoAnalytics
  /\ adminToken \in AdminTokens
  /\ kv \in {EmptyStore, [EmptyStore EXCEPT !["siteSettings"] = Some("v1")]}
  /\ response = None

NextWorker == \E req \in Requests : Request(req)

\* the settings worker under any sequence of requests
SpecWorker == InitWorker /\ [][NextWorker]_vars

\* the session store alone, over a whole session lifetime and with items
\* that are no live session
SpecSession == Init /\ [][NextSession]_vars

(* ====================== the token store (Spec) ====================== *)

\* the entries of the stored token collection with this value
Entries(raw, token) ==
  {i \in 1..Len(GetMagicTokens(raw)) : GetMagicTokens(raw)[i].token = token}

\* C1: a magic-link token is redeemable at most once: for every token value
\* at most one validateMagicToken call with that value returns a session,
\* whatever other store calls are made in between.
C1_RedeemedAtMostOnce == \A v \in 1..MaxUuid : redeemed[v] <= 1

\* a second validateMagicToken of a redeemed value has returned null
C1_Witness ==
  /\ last.op = "validateMagicToken"
  /\ last.arg \in 1..MaxUuid
  /\ redeemed[last.arg] = 1
  /\ IsNone(last.ret)

\* C2: generateMagicToken(email) of an email with '@', followed immediately
\* by validateMagicToken of the returned token, returns a session with that
\* email and method "magic-link", and getSession then returns that session.
C2_IssueThenRedeem ==
  [][\A t \in 1..MaxUuid :
       (/\ last.op = "generateMagicToken"
        /\ ~IsNone(last.ret)
        /\ Val(last.ret).token = t
        /\ \E i \in Entries(magicRaw, t) :
              GetMagicTokens(magicRaw)[i].expiresAt = now + MAGIC_DURATION
        /\ ValidateMagicToken(t))
       => (/\ ~IsNone(last'.ret)
           /\ Val(last'.ret).email = Val(last.ret).to
           /\ Val(last'.ret).method = "magic-link"
           /\ GetPortalSession(sessionRaw', now').ret = last'.ret)]_vars

\* the token issued for b@x.org has been redeemed and getSession would
\* return the session for b@x.org
C2_Witness ==
  /\ last.op = "validateMagicToken"
  /\ ~IsNone(last.ret)
  /\ Val(last.ret).email = "b@x.org"
  /\ Val(last.ret).method = "magic-link"
  /\ GetPortalSession(sessionRaw, now).ret = last.ret

\* C3: a token issued at time t has expiresAt = t + 15 minutes;
\* validateMagicToken of an unconsumed token returns a session at every time
\* strictly before expiresAt and returns null, creating no session, at every
\* time at or after expiresAt, also on the first attempt.
C3_RedeemableUntilExpiry ==
  [][/\ \A e \in Emails :
          (last'.op = "generateMagicToken" /\ GenerateMagicToken(e) /\ ~IsNone(last'.ret))
          => \E i \in Entries(magicRaw', Val(last'.ret).token) :
                /\ GetMagicTokens(magicRaw')[i].expiresAt = now + 15 * 60 * 1000
                /\ GetMagicTokens(magicRaw')[i].email = e
     /\ \A t \in 1..MaxUuid :
          (last'.op = "validateMagicToken" /\ ValidateMagicToken(t))
          => \A i \in Entries(magicRaw, t) :
             IF now < GetMagicTokens(magicRaw)[i].expiresAt
               THEN ~IsNone(last'.ret)
               ELSE IsNone(last'.ret) /\ sessionRaw' = sessionRaw]_vars

\* the first validateMagicToken of an issued token, made at the very
\* instant it expires, has returned null
C3_Witness ==
  /\ last.op = "validateMagicToken"
  /\ last.arg \in 1..uuids
  /\ redeemed[last.arg] = 0
  /\ IsNone(last.ret)
  /\ now = MAGIC_DURATION

\* C10: the session store is a single slot: every session creation
\* (setSession, successful validateMagicToken, successful handleGoogleSignIn)
\* replaces the stored record entirely, so getSession returns the most
\* recently created session and nothing of the one before.
C10_SingleSlot ==
  [][/\ \A data \in SessionData :
          (last'.op = "setSession" /\ SetSession(data))
          => /\ GetPortalSession(sessionRaw', now').ret = last'.ret
             /\ Val(last'.ret).email = data.email
             /\ Val(last'.ret).contactId = OrElse(data.contactId, Null)
             /\ Val(last'.ret).contactName = OrElse(data.contactName, Null)
     /\ \A t \in 1..MaxUuid :
          (last'.op = "validateMagicToken" /\ ValidateMagicToken(t) /\ ~IsNone(last'.ret))
          => /\ GetPortalSession(sessionRaw', now').ret = last'.ret
             /\ \A i \in Entries(magicRaw, t) :
                  Val(last'.ret).email = GetMagicTokens(magicRaw)[i].email
             /\ Val(last'.ret).contactId = Null
             /\ Val(last'.ret).contactName = Null
     /\ \A p \in JwtPayloads :
          (last'.nav = "href:portal-dashboard.html" /\ HandleGoogleSignIn(p))
          => LET g == GetPortalSession(sessionRaw', now').ret IN
             /\ ~IsNone(g)
             /\ Val(g).method = "google"
             /\ Val(g).email = Val(p).email
             /\ Val(g).contactId = Null
             /\ Val(g).contactName = Null]_vars

\* a second magic-link session has replaced the session of the first link
C10_Witness ==
  /\ last.op = "validateMagicToken"
  /\ ~IsNone(last.ret)
  /\ redeemed[1] = 1
  /\ redeemed[2] = 1
  /\ GetPortalSession(sessionRaw, now).ret = last.ret

\* the addresses that are empty or contain no "@"
MalformedEmails == {"", "nobody"}

\* C13: generateMagicToken rejects every email that is empty or does not
\* contain "@": it returns null, adds no token, leaves the persisted token
\* collection and the session unchanged, and makes no network call.
C13_MalformedEmailRejected ==
  [][\A e \in MalformedEmails :
       (last'.op = "generateMagicToken" /\ GenerateMagicToken(e))
       => /\ IsNone(last'.ret)
          /\ magicRaw' = magicRaw
          /\ sessionRaw' = sessionRaw
          /\ uuids' = uuids
          /\ inflight' = inflight]_vars

\* an address without "@" has been rejected while a token issued earlier
\* is still stored
C13_Witness ==
  /\ last.op = "generateMagicToken"
  /\ IsNone(last.ret)
  /\ Len(GetMagicTokens(magicRaw)) >= 1

\* the stored token collection holds an entry whose expiresAt has passed
HoldsExpired(raw, t) ==
  \E i \in 1..Len(GetMagicTokens(raw)) : t >= GetMagicTokens(raw)[i].expiresAt

\* C14: whenever validateMagicToken returns null (the value is unknown,
\* expired, already consumed, or empty), the persisted token collection
\* afterwards contains no expired entry.
C14_FailedRedeemSweeps ==
  [][\A t \in {NoToken, UnknownToken} \cup 1..MaxUuid :
       (last'.op = "validateMagicToken" /\ ValidateMagicToken(t) /\ IsNone(last'.ret))
       => ~HoldsExpired(magicRaw', now')]_vars

\* C15: expired tokens are purged on every access to the token store,
\* writes included: after any generateMagicToken call that issues a token,
\* the persisted collection contains no token whose expiresAt has passed.
C15_IssuePurgesExpired ==
  [][\A e \in Emails :
       (last'.op = "generateMagicToken" /\ GenerateMagicToken(e) /\ ~IsNone(last'.ret))
       => ~HoldsExpired(magicRaw', now')]_vars

\* a value no live stored entry carries: never issued, already consumed,
\* or issued and expired (its entry past expiresAt, or swept out)
NotRedeemable(t) ==
  \/ t = UnknownToken
  \/ /\ t \in 1..uuids
     /\ \/ redeemed[t] >= 1
        \/ \A i \in Entries(magicRaw, t) : now >= GetMagicTokens(magicRaw)[i].expiresAt

\* C16: a failed redemption does not reveal why it failed and never touches
\* the session: whether the presented value is unknown, expired or already
\* consumed, validateMagicToken returns null, and the session store is
\* exactly as it was before the call.
C16_FailedRedeemUniform ==
  [][\A t \in {UnknownToken} \cup 1..MaxUuid :
       (last'.op = "validateMagicToken" /\ NotRedeemable(t) /\ ValidateMagicToken(t))
       => /\ IsNone(last'.ret)
          /\ sessionRaw' = sessionRaw]_vars

\* an expired token has been refused while a live session is stored
C16_Witness ==
  /\ last.op = "validateMagicToken"
  /\ last.arg \in 1..uuids
  /\ redeemed[last.arg] = 0
  /\ IsNone(last.ret)
  /\ ~IsNone(GetPortalSession(sessionRaw, now).ret)

\* the stored entries that are still unexpired at time t
LiveEntries(raw, t) ==
  {GetMagicTokens(raw)[i] : i \in {j \in 1..Len(GetMagicTokens(raw)) :
                                     t < GetMagicTokens(raw)[j].expiresAt}}

\* C26: several live tokens may coexist, also for the same email, and are
\* independent: issuing a token never removes or invalidates an earlier
\* unexpired token, and a successful redemption removes only the redeemed
\* entry, so each of the other unexpired tokens remains redeemable, once.
C26_TokensIndependent ==
  [][/\ \A e \in Emails :
          (last'.op = "generateMagicToken" /\ GenerateMagicToken(e))
          => LiveEntries(magicRaw, now) \subseteq LiveEntries(magicRaw', now')
     /\ \A t \in 1..MaxUuid :
          (last'.op = "validateMagicToken" /\ ~IsNone(last'.ret) /\ ValidateMagicToken(t))
          => /\ LiveEntries(magicRaw', now') =
                  {k \in LiveEntries(magicRaw, now) : k.token # t}
             /\ \A k \in LiveEntries(magicRaw', now') : redeemed'[k.token] = 0
     /\ \A t \in 1..MaxUuid :
          (last'.op = "validateMagicToken" /\ ValidateMagicToken(t)
             /\ \E k \in LiveEntries(magicRaw, now) : k.token = t)
          => ~IsNone(last'.ret) /\ redeemed'[t] = 1]_vars

\* of two live tokens issued for the same email one has been redeemed and
\* the other is still stored and unexpired
C26_Witness ==
  /\ last.op = "validateMagicToken"
  /\ ~IsNone(last.ret)
  /\ redeemed[1] + redeemed[2] = 1
  /\ \E k \in LiveEntries(magicRaw, now) :
        k.email = Val(last.ret).email /\ redeemed[k.token] = 0

\* C29: sign-out does not revoke outstanding magic links: clearSession
\* leaves the persisted token collection unchanged, so a token issued before
\* the sign-out and still unexpired and unconsumed can be redeemed
\* afterwards and creates a new session.
C29_SignOutKeepsLinks ==
  [][/\ (last'.op = "clearSession" /\ ClearSession) => magicRaw' = magicRaw
     /\ \A t \in 1..MaxUuid :
          (last.op = "clearSession" /\ last'.op = "validateMagicToken"
             /\ ValidateMagicToken(t)
             /\ \E k \in LiveEntries(magicRaw, now) : k.token = t)
          => /\ ~IsNone(last'.ret)
             /\ GetPortalSession(sessionRaw', now').ret = last'.ret]_vars

\* right after a sign-out a token issued before it is still stored and
\* unexpired
C29_Witness ==
  /\ last.op = "clearSession"
  /\ sessionRaw = NoItem
  /\ LiveEntries(magicRaw, now) # {}

(* ================== the session store (SpecSession) ================== *)

\* a stored item that parses to a record with a true authenticated flag
IsSessionItem(raw) ==
  raw.kind = "json" /\ ~IsNone(raw.obj) /\ Val(raw.obj).authenticated

\* C4: for every stored session whose expiresAt is in the past, getSession
\* returns null and deletes the stored record, so that a later read finds
\* nothing persisted; contact bound or not; and the record goes on access
\* only, never by the passing of time alone.
C4_ExpiredSessionPurgedOnRead ==
  [][/\ (GetSession /\ IsSessionItem(sessionRaw) /\ now > Val(sessionRaw.obj).expiresAt)
          => IsNone(last'.ret) /\ sessionRaw' = NoItem
     /\ (\E d \in Deltas : Tick(d)) => sessionRaw' = sessionRaw]_vars

\* getSession has found the session expired and removed it
C4_Witness ==
  /\ last.op = "getSession"
  /\ last.removed = 24
  /\ IsNone(last.ret)
  /\ sessionRaw = NoItem

\* no live session: nothing stored, or what is stored is unparseable, null,
\* not authenticated, or expired
NoLiveSession(raw, t) ==
  \/ raw.kind \in {"none", "corrupt"}
  \/ raw.kind = "json" /\ IsNone(raw.obj)
  \/ raw.kind = "json" /\ ~IsNone(raw.obj)
       /\ (~Val(raw.obj).authenticated \/ t > Val(raw.obj).expiresAt)

\* C8: updateSessionContact called when no live session exists returns null
\* and creates no session: getSession immediately afterwards returns null.
C8_NoSessionNoUpdate ==
  [][\A c \in ContactIds, n \in ContactNames :
       (UpdateSessionContact(c, n) /\ NoLiveSession(sessionRaw, now))
       => /\ IsNone(last'.ret)
          /\ NoLiveSession(sessionRaw', now')
          /\ IsNone(GetPortalSession(sessionRaw', now').ret)]_vars

\* updateSessionContact has found the stored session expired
C8_Witness ==
  /\ last.op = "updateSessionContact"
  /\ last.removed = 24
  /\ IsNone(last.ret)

\* C9: updateSessionContact(contactId, contactName) on a live session
\* changes only contactId and contactName: the session returned, and the one
\* the next getSession returns, has the given contactId and contactName and
\* the expiresAt, email, method, displayName, token and authenticated flag
\* it had before the call.
C9_UpdateChangesOnlyContact ==
  [][\A c \in ContactIds, n \in ContactNames :
       (UpdateSessionContact(c, n) /\ ~NoLiveSession(sessionRaw, now))
       => LET old == Val(sessionRaw.obj) IN
          /\ ~IsNone(last'.ret)
          /\ Val(last'.ret).contactId = c
          /\ Val(last'.ret).contactName = n
          /\ Val(last'.ret).expiresAt = old.expiresAt
          /\ Val(last'.ret).email = old.email
          /\ Val(last'.ret).method = old.method
          /\ Val(last'.ret).displayName = old.displayName
          /\ Val(last'.ret).token = old.token
          /\ Val(last'.ret).authenticated = old.authenticated
          /\ GetPortalSession(sessionRaw', now').ret = last'.ret]_vars

\* the session bound to contact 003B is now bound to 003A, some time after
\* it was created
C9_Witness ==
  /\ last.op = "updateSessionContact"
  /\ ~IsNone(last.ret)
  /\ Val(last.ret).contactId = "003A"
  /\ Val(last.ret).displayName = "Maria"
  /\ Val(last.ret).expiresAt < now + SESSION_DURATION

\* C11: setSession(data) always persists and returns a record with
\* authenticated = true, method = data.method or "unknown" when omitted,
\* displayName = data.displayName or the email when omitted, the token
\* supplied or a generated one when none is supplied, and expiresAt = the
\* time of the call + 24 hours.
C11_SetSessionDefaults ==
  [][\A data \in SessionData :
       SetSession(data)
       => /\ ~IsNone(last'.ret)
          /\ sessionRaw' = Stringify(last'.ret)
          /\ Val(last'.ret).authenticated
          /\ Val(last'.ret).method = (IF data.method = "" THEN "unknown" ELSE data.method)
          /\ Val(last'.ret).displayName =
                (IF data.displayName = "" THEN data.email ELSE data.displayName)
          /\ Val(last'.ret).token = (IF data.token = 0 THEN SessionUuid ELSE data.token)
          /\ Val(last'.ret).expiresAt = now + 24 * 60 * 60 * 1000]_vars

\* setSession without method, displayName or token, called some time after
\* page load, has stored a record with the defaults
C11_Witness ==
  /\ last.op = "setSession"
  /\ now > 0
  /\ sessionRaw = Stringify(last.ret)
  /\ Val(last.ret).method = "unknown"
  /\ Val(last.ret).displayName = "a@x.org"
  /\ Val(last.ret).token = SessionUuid
  /\ Val(last.ret).expiresAt = now + SESSION_DURATION

\* C12: getSession returns null when nothing is persisted, when the
\* persisted text does not parse, when the parsed record's authenticated
\* flag is falsy, or when expiresAt has passed; in the unparseable case and
\* in the expired case the persisted record is removed from storage.
C12_GetSessionNullCases ==
  [][GetSession
     => /\ sessionRaw.kind = "none" => IsNone(last'.ret) /\ sessionRaw' = NoItem
        /\ sessionRaw.kind = "corrupt" => IsNone(last'.ret) /\ sessionRaw' = NoItem
        /\ (sessionRaw.kind = "json" /\ IsNone(sessionRaw.obj)) => IsNone(last'.ret)
        /\ (sessionRaw.kind = "json" /\ ~IsNone(sessionRaw.obj)
              /\ ~Val(sessionRaw.obj).authenticated) => IsNone(last'.ret)
        /\ (IsSessionItem(sessionRaw) /\ now > Val(sessionRaw.obj).expiresAt)
             => IsNone(last'.ret) /\ sessionRaw' = NoItem
        /\ ~NoLiveSession(sessionRaw, now)
             => last'.ret = sessionRaw.obj /\ sessionRaw' = sessionRaw]_vars

\* getSession has found text that is not JSON and removed it
C12_Witness ==
  /\ last.op = "getSession"
  /\ last.removed = 29
  /\ IsNone(last.ret)
  /\ sessionRaw = NoItem

\* C17: requireAuth returns the live session unchanged and triggers no
\* navigation when getSession is non-null; when there is no live session it
\* returns null and issues one replacing navigation (location.replace, not
\* an href assignment) to the sign-in page.
C17_RequireAuth ==
  [][RequireAuth
     => IF NoLiveSession(sessionRaw, now)
          THEN /\ IsNone(last'.ret)
               /\ last'.nav = "replace:portal-login.html"
          ELSE /\ last'.ret = sessionRaw.obj
               /\ sessionRaw' = sessionRaw
               /\ last'.nav = ""]_vars

\* requireAuth has found the session expired and sent the browser to the
\* sign-in page
C17_Witness ==
  /\ last.op = "requireAuth"
  /\ IsNone(last.ret)
  /\ last.removed = 24
  /\ last.nav = "replace:portal-login.html"

\* a step that leaves a live session where there was none
SessionAppears ==
  /\ IsNone(GetPortalSession(sessionRaw, now).ret)
  /\ ~IsNone(GetPortalSession(sessionRaw', now').ret)

\* C18: sign-out works from every state: after clearSession the persisted
\* session record is gone and a navigation to the sign-in page is requested,
\* and getSession and requireAuth return null until a new session is created
\* by a later sign-in.
C18_SignOut ==
  [][/\ ClearSession
          => /\ sessionRaw' = NoItem
             /\ last'.nav = "href:portal-login.html"
             /\ IsNone(GetPortalSession(sessionRaw', now').ret)
     /\ SessionAppears
          => last'.op \in {"setSession", "validateMagicToken", "handleGoogleSignIn"}
     /\ ((GetSession \/ RequireAuth) /\ IsNone(GetPortalSession(sessionRaw, now).ret))
          => IsNone(last'.ret)]_vars

\* clearSession has been called some time after page load: nothing is stored
\* and the sign-in page is requested
C18_Witness ==
  /\ last.op = "clearSession"
  /\ last.removed = 59
  /\ last.nav = "href:portal-login.html"
  /\ sessionRaw = NoItem
  /\ now > 0

\* a step that creates a session: setSession, or a handleGoogleSignIn that
\* navigates to the dashboard, or a validateMagicToken that returns a session
CreatesSession ==
  \/ \E data \in SessionData : SetSession(data)
  \/ last'.nav = "href:portal-dashboard.html" /\ \E p \in JwtPayloads : HandleGoogleSignIn(p)
  \/ /\ last'.op = "validateMagicToken"
     /\ ~IsNone(last'.ret)
     /\ \E t \in 1..MaxUuid : ValidateMagicToken(t)

\* C25: a session's lifetime is fixed at creation: the persisted session's
\* expiresAt is the time it was created plus 24 hours, and no operation
\* other than creating a new session (not getSession, requireAuth,
\* updateSessionContact, or a failed validateMagicToken) changes expiresAt.
C25_LifetimeFixedAtCreation ==
  [][/\ CreatesSession
          => /\ IsSessionItem(sessionRaw')
             /\ Val(sessionRaw'.obj).expiresAt = now + 24 * 60 * 60 * 1000
     /\ (~CreatesSession /\ IsSessionItem(sessionRaw) /\ IsSessionItem(sessionRaw'))
          => Val(sessionRaw'.obj).expiresAt = Val(sessionRaw.obj).expiresAt]_vars

\* a session created one millisecond after page load has been bound to a
\* contact one millisecond later and still expires 24 hours after its creation
C25_Witness ==
  /\ last.op = "updateSessionContact"
  /\ ~IsNone(last.ret)
  /\ now = 2
  /\ IsSessionItem(sessionRaw)
  /\ Val(sessionRaw.obj).expiresAt = 1 + SESSION_DURATION

(* ================ email verification (SpecGateway) ================ *)

\* the response was a success whose parsed body is an object with this
\* kind of records value
OkWithRecords(v, kinds) ==
  /\ v.fetched
  /\ v.outcome.kind = "response"
  /\ v.outcome.ok
  /\ v.outcome.body.json = "object"
  /\ v.outcome.body.records.kind \in kinds

\* C5: verifyEmail fails open: the result has verified = false only when a
\* CRM endpoint is configured, the response is a success and the parsed body
\* carries a records field with zero entries; in every other case (no
\* configuration, non-OK response, no records field, unparseable body,
\* thrown fetch error) verified = true.
C5_FailOpen ==
  \A v \in {settled[i] : i \in 1..Len(settled)} :
    ~v.result.verified
      => /\ v.configured
         /\ OkWithRecords(v, {"array"})
         /\ v.outcome.body.records.len = 0

\* C6: the source tag is determined by the path taken: "local" exactly when
\* no CRM instance URL is configured, "salesforce" exactly when a success
\* response carries a records field (verified iff it has at least one
\* record), "fallback" for a non-OK response, a success response without a
\* records field, or a transport exception.
C6_SourceByPath ==
  \A v \in {settled[i] : i \in 1..Len(settled)} :
    /\ v.result.source = "local" <=> ~v.configured
    /\ v.result.source = "salesforce" <=> OkWithRecords(v, {"null", "nolength", "array"})
    /\ v.result.source = "salesforce"
         => (v.result.verified <=> v.outcome.body.records.len >= 1)
    /\ (v.fetched /\ (v.outcome.kind = "throw" \/ ~v.outcome.ok
                       \/ OkWithRecords(v, {"undefined"})))
         => v.result.source = "fallback"

\* C6 as amended: "local" exactly when no fetch is made, which is when no
\* instance URL is configured or the email is empty; "salesforce" exactly
\* when a success response's parsed body is an object whose records value is
\* neither undefined nor null, and then verified iff records.length > 0;
\* "fallback" in every other case of a fetch: a transport exception, a non-OK
\* response, a body that does not parse or is null, no records field, or a
\* null records field.
C6_SourceByPathAmended ==
  \A v \in {settled[i] : i \in 1..Len(settled)} :
    /\ v.result.source \in {"local", "salesforce", "fallback"}
    /\ v.result.source = "local" <=> (~v.configured \/ v.email = "")
    /\ v.result.source = "local" <=> ~v.fetched
    /\ v.result.source = "salesforce" <=> OkWithRecords(v, {"nolength", "array"})
    /\ v.result.source = "salesforce"
         => (v.result.verified <=>
               (v.outcome.body.records.kind = "array" /\ v.outcome.body.records.len > 0))
    /\ v.result.source # "salesforce" => v.result.verified

\* one call was answered without a fetch although an instance URL is
\* configured (the email is empty); another call got a success response with
\* a null records field
C6_Witness ==
  /\ ~IsNone(settled)
  /\ \/ Val(settled).configured /\ ~Val(settled).fetched
     \/ OkWithRecords(Val(settled), {"null"})
  /\ Val(settled).result.verified

\* the token values in the stored collection
StoredTokens(raw) ==
  {GetMagicTokens(raw)[i].token : i \in 1..Len(GetMagicTokens(raw))}

\* C7: no token is issued for an email whose verification came back
\* negative: the sign-in page adds a token for email e only when
\* verifyEmail(e) has resolved with verified = true, and after a result with
\* verified = false the token store is unchanged and the page is back in
\* Anonymous.
C7_TokenOnlyAfterVerified ==
  [][/\ magicRaw' # magicRaw
          => /\ ~IsNone(settled')
             /\ Val(settled').result.verified
             /\ \A i \in 1..Len(GetMagicTokens(magicRaw')) :
                  GetMagicTokens(magicRaw')[i].token \notin StoredTokens(magicRaw)
                    => GetMagicTokens(magicRaw')[i].email = Val(settled').email
     /\ (settled' # settled /\ ~IsNone(settled') /\ ~Val(settled').result.verified
           /\ Val(settled').owner = "login")
          => magicRaw' = magicRaw /\ login'.state = "Anonymous"]_vars

\* the CRM has answered the page's lookup with an empty records array: the
\* page shows "not found" and the token store is as it was
C7_Witness ==
  /\ ~IsNone(settled)
  /\ Val(settled).owner = "login"
  /\ ~Val(settled).result.verified
  /\ login.state = "Anonymous"
  /\ login.message = "not-found"
  /\ Val(settled).outcome.body.records.kind = "array"

(* ================ the contact lookups (SpecContacts) ================ *)

\* the settled promise is one of fetchAllContacts or fetchContactById
IsLookup(v) == "fn" \in DOMAIN v

\* the lookup found contacts: a success response whose parsed body is an
\* object with a non-empty records array
FoundContacts(v) ==
  OkWithRecords(v, {"array"}) /\ v.outcome.body.records.len > 0

\* C19: the CRM gateways never reject: for every outcome of the underlying
\* fetch (missing configuration, non-OK response, body without records,
\* unparseable body, thrown transport error) fetchAllContacts resolves to an
\* empty array and fetchContactById resolves to null, and verifyEmail
\* resolves to a {verified, source} value.
C19_GatewaysNeverReject ==
  \A v \in {settled[i] : i \in 1..Len(settled)} :
    IF IsLookup(v)
      THEN /\ v.state = "fulfilled"
           /\ (~FoundContacts(v) /\ v.fn = "fetchAllContacts")
                => v.value = [kind |-> "array", len |-> 0]
           /\ (~FoundContacts(v) /\ v.fn = "fetchContactById")
                => v.value = [kind |-> "null", len |-> 0]
           /\ FoundContacts(v) => v.value.len > 0
      ELSE /\ v.result.verified \in BOOLEAN
           /\ v.result.source \in {"local", "salesforce", "fallback"}

\* fetchContactById has resolved to null after a success response whose
\* body was not JSON
C19_Witness ==
  /\ ~IsNone(settled)
  /\ IsLookup(Val(settled))
  /\ Val(settled).fn = "fetchContactById"
  /\ Val(settled).fetched
  /\ Val(settled).outcome.ok
  /\ Val(settled).outcome.body.json = "invalid"
  /\ Val(settled).state = "fulfilled"
  /\ Val(settled).value = NullContact

(* ============ late gateway results (SpecLate) ============ *)

\* C20: a gateway result that arrives late cannot clobber a newer session:
\* under every interleaving of in-flight verifyEmail, fetchAllContacts and
\* fetchContactById completions with session operations (sign-in, sign-out,
\* expiry), the completion of a gateway call leaves the persisted session
\* and the persisted token collection exactly as they were.
C20_LateResultWritesNothing ==
  [][(/\ settled' # settled
      /\ ~IsNone(settled')
      /\ Val(settled').fetched
      /\ \E i \in 1..MaxInflight :
            \/ FetchSettles(i, Val(settled').outcome)
            \/ ContactsSettle(i, Val(settled').outcome))
     => /\ sessionRaw' = sessionRaw
        /\ magicRaw' = magicRaw]_vars

\* fetchAllContacts has completed while a live session created after page
\* load is stored, and another gateway call is still in flight
C20_Witness ==
  /\ last.op = "fetchAllContacts"
  /\ ~IsNone(settled)
  /\ IsLookup(Val(settled))
  /\ Val(settled).fetched
  /\ Len(inflight) = 1
  /\ ~IsNone(GetPortalSession(sessionRaw, now).ret)
  /\ Val(sessionRaw.obj).expiresAt > SESSION_DURATION

(* ============ magic-link sessions (SpecBinding) ============ *)

\* C28: a magic-link session starts unbound: right after a successful
\* validateMagicToken the stored session has contactId = null and
\* contactName = null, even when the session it replaced was bound to a
\* contact; the binding of that session becomes non-null only through a
\* later updateSessionContact.
C28_MagicLinkStartsUnbound ==
  [][/\ (/\ last'.op = "validateMagicToken"
         /\ ~IsNone(last'.ret)
         /\ \E t \in 1..MaxUuid : ValidateMagicToken(t))
          => /\ IsSessionItem(sessionRaw')
             /\ Val(sessionRaw'.obj).method = "magic-link"
             /\ Val(sessionRaw'.obj).contactId = Null
             /\ Val(sessionRaw'.obj).contactName = Null
     /\ (/\ last'.op # "setSession"
         /\ IsSessionItem(sessionRaw)
         /\ IsSessionItem(sessionRaw')
         /\ Val(sessionRaw.obj).method = "magic-link"
         /\ Val(sessionRaw.obj).contactId = Null
         /\ \/ Val(sessionRaw'.obj).contactId # Null
            \/ Val(sessionRaw'.obj).contactName # Null)
          => last'.op = "updateSessionContact"]_vars

\* a magic link has been redeemed by the last call: the stored session is
\* the magic-link session of the link's email, bound to no contact
C28_Witness ==
  /\ last.op = "validateMagicToken"
  /\ ~IsNone(last.ret)
  /\ IsSessionItem(sessionRaw)
  /\ Val(sessionRaw.obj) = Val(last.ret)
  /\ Val(sessionRaw.obj).email = "a@x.org"
  /\ Val(sessionRaw.obj).contactId = Null
  /\ Val(sessionRaw.obj).contactName = Null
  /\ redeemed[1] = 1

(* ============ expiry instants (SpecBoundary) ============ *)

\* C30: the two lifetimes treat the boundary instant differently: at
\* now = expiresAt a token is already invalid (validateMagicToken returns
\* null) whereas a session is still live (getSession returns it and does not
\* remove it); a session is absent only strictly after expiresAt.
C30_BoundaryInstant ==
  [][/\ \A t \in 1..MaxUuid :
          (/\ last'.op = "validateMagicToken"
           /\ Entries(magicRaw, t) # {}
           /\ \A i \in Entries(magicRaw, t) : GetMagicTokens(magicRaw)[i].expiresAt = now
           /\ ValidateMagicToken(t))
          => IsNone(last'.ret) /\ sessionRaw' = sessionRaw
     /\ (last'.op = "getSession" /\ IsSessionItem(sessionRaw) /\ GetSession)
          => IF now <= Val(sessionRaw.obj).expiresAt
               THEN last'.ret = sessionRaw.obj /\ sessionRaw' = sessionRaw
               ELSE IsNone(last'.ret)]_vars

\* getSession, called at the very instant the stored session expires, has
\* returned it and left it stored
C30_Witness ==
  /\ last.op = "getSession"
  /\ ~IsNone(last.ret)
  /\ now = Val(last.ret).expiresAt
  /\ sessionRaw = Stringify(last.ret)

(* ============ attaching a resolved contact (SpecAttach) ============ *)

\* C27: a contact binding is applied only if the machine is still in the
\* state the resolution started from: when the session that started a
\* contact resolution has since been destroyed, expired or replaced by a
\* session for another email, the late call that attaches the resolved
\* contact does not bind it, so the stored contactId always belongs to a
\* Contact resolved for the stored session's own email.
C27_BindOnlyInSourceState ==
  [][(/\ last'.op = "updateSessionContact"
      /\ ~IsNone(settled)
      /\ IsLookup(Val(settled))
      /\ Val(settled).fn = "fetchAllContacts"
      /\ Val(settled).value.len > 0
      /\ LiveEmail # Val(settled).arg
      /\ \E c \in ContactIds, n \in ContactNames : UpdateSessionContact(c, n))
     => /\ IsNone(last'.ret)
        /\ IsSessionItem(sessionRaw')
             => Val(sessionRaw'.obj).contactId = Val(sessionRaw.obj).contactId]_vars

(* ============ the analytics event store (SpecAnalytics) ============ *)

\* C21: the analytics event store is capped: after any sequence of track
\* (and clearAll) calls the number of persisted events is at most 500, and
\* when more than 500 have been saved into the store it holds exactly the
\* 500 most recently saved, in order.
C21_EventStoreCapped ==
  LET events == GetEvents(analyticsRaw) IN
    /\ Len(events) <= 500
    /\ saved > 500 => Len(events) = 500
    /\ \A i \in 1..Len(events) : events[i].n = saved - Len(events) + i

\* two events have been saved into a store that held 499: the store holds
\* 500 events, the oldest of them the second ever saved
C21_Witness ==
  /\ saved = 501
  /\ Len(GetEvents(analyticsRaw)) = 500
  /\ GetEvents(analyticsRaw)[1].n = 2
  /\ GetEvents(analyticsRaw)[500].n = 501

\* C22: every track(type, meta) call adds exactly one event of that type,
\* visible to getEvents, getTotalBookClicks and getTotalSubmissions as soon
\* as track has returned, in every state of the geo lookup (cached, in
\* flight, failed).
C22_TrackedAtOnce ==
  [][\A type \in EventTypes :
       (tracked' # tracked /\ Track(type))
       => LET before == GetEvents(analyticsRaw)
              after == GetEvents(analyticsRaw')
          IN /\ Len(after) > 0
             /\ after[Len(after)].type = type
             /\ Len(before) < MAX_EVENTS
                  => /\ Len(after) = Len(before) + 1
                     /\ GetTotalBookClicks(analyticsRaw')
                          = GetTotalBookClicks(analyticsRaw)
                              + (IF type = "book_click" THEN 1 ELSE 0)
                     /\ GetTotalSubmissions(analyticsRaw')
                          = GetTotalSubmissions(analyticsRaw)
                              + (IF type = "form_submission" THEN 1 ELSE 0)]_vars

(* ============ the settings worker (SpecWorker) ============ *)

\* the request carries no bearer token, an empty one, or one that is not
\* the configured ADMIN_TOKEN (the token is the Authorization value without
\* its "Bearer" prefix)
NotAuthenticated(req) ==
  \/ IsNone(req.auth)
  \/ Val(req.auth).rest = ""
  \/ IsNone(adminToken)
  \/ Val(req.auth).rest # Val(adminToken)

\* C23: the settings worker never changes KV for an unauthenticated
\* request: a PUT or DELETE whose bearer token is missing, empty or
\* different from ADMIN_TOKEN (also when ADMIN_TOKEN is not configured) gets
\* 401 and leaves every key and value unchanged; GET requests to the
\* settings routes are served without authentication, and no GET writes.
C23_NoWriteWithoutAuth ==
  [][~IsNone(response') =>
       LET req == Val(response').req IN
         /\ (req.method \in {"PUT", "DELETE"} /\ NotAuthenticated(req))
              => Val(response').status = 401 /\ kv' = kv
         /\ req.method = "GET" => kv' = kv
         /\ (req.method = "GET" /\ req.path \in {"all", "key"})
              => /\ Val(response').status \in {200, 400, 404}
                 /\ Val(response').status = Fetch(kv, adminToken, [req EXCEPT !.auth = None]).status]_vars

\* a DELETE of a stored key that carried the right token has been answered
\* 401 by a worker whose ADMIN_TOKEN is not configured: the key is still
\* stored
C23_Witness ==
  /\ ~IsNone(response)
  /\ Val(response).req.method = "DELETE"
  /\ Val(response).req.key = "siteSettings"
  /\ Val(response).req.auth = Some(Header(TRUE, "secret"))
  /\ adminToken = None
  /\ Val(response).status = 401
  /\ kv["siteSettings"] = Some("v1")

\* the value the body of a bulk write gives for a key
BodyValue(entries, key) ==
  LET i == CHOOSE j \in 1..Len(entries) : entries[j].key = key IN entries[i].value

\* a served bulk write has written exactly the whitelisted keys of its body
\* and reported the others as rejected
BulkWriteExact(req, resp, before, after) ==
  LET keys == {req.body.entries[i].key : i \in 1..Len(req.body.entries)} IN
    /\ {resp.written[i] : i \in 1..Len(resp.written)} = keys \cap ALLOWED_KEYS
    /\ {resp.rejected[i] : i \in 1..Len(resp.rejected)} = keys \ ALLOWED_KEYS
    /\ \A k \in RequestKeys :
         after[k] = IF k \in keys \cap ALLOWED_KEYS
                      THEN Some(IF BodyValue(req.body.entries, k).type = "string"
                                  THEN BodyValue(req.body.entries, k).str
                                  ELSE BodyValue(req.body.entries, k).json)
                      ELSE before[k]

\* C24: the worker only ever stores whitelisted keys: from a store holding
\* only ALLOWED_KEYS keys, after any sequence of requests the store still
\* holds only ALLOWED_KEYS keys; a single-key GET, PUT or DELETE naming a
\* non-whitelisted key gets 400 and changes nothing; a bulk PUT writes
\* exactly the whitelisted keys of the body and reports every other key as
\* rejected.
C24_WhitelistOnly ==
  [][~IsNone(response') =>
       LET req == Val(response').req IN
         /\ \A k \in RequestKeys : ~IsNone(kv'[k]) => k \in ALLOWED_KEYS
         /\ (/\ req.method \in {"GET", "PUT", "DELETE"}
             /\ req.path = "key"
             /\ req.key \notin ALLOWED_KEYS)
              => Val(response').status = 400 /\ kv' = kv
         /\ (req.method = "PUT" /\ req.path = "all" /\ Val(response').status = 200)
              => BulkWriteExact(req, Val(response'), kv, kv')]_vars

\* C24 as amended: the store only ever holds ALLOWED_KEYS keys; a
\* single-key GET naming a non-whitelisted key, and a single-key PUT or
\* DELETE naming one that passes the authorization check, gets 400 and
\* changes nothing (without authorization the PUT or DELETE gets 401 and
\* changes nothing); a bulk PUT that is served writes exactly the
\* whitelisted keys of the body and reports every other key as rejected.
C24_WhitelistOnlyAmended ==
  [][~IsNone(response') =>
       LET req == Val(response').req IN
         /\ \A k \in RequestKeys : ~IsNone(kv'[k]) => k \in ALLOWED_KEYS
         /\ (/\ req.method \in {"GET", "PUT", "DELETE"}
             /\ req.path = "key"
             /\ req.key \notin ALLOWED_KEYS)
              => /\ kv' = kv
                 /\ Val(response').status
                      = IF req.method # "GET" /\ NotAuthenticated(req) THEN 401 ELSE 400
         /\ (req.method = "PUT" /\ req.path = "all" /\ Val(response').status = 200)
              => BulkWriteExact(req, Val(response'), kv, kv')]_vars

\* a bulk PUT naming a whitelisted key and another key has been served: the
\* first is stored with the text of its value and the second is reported
\* rejected
C24_Witness ==
  /\ ~IsNone(response)
  /\ Val(response).req.method = "PUT"
  /\ Val(response).req.path = "all"
  /\ Val(response).status = 200
  /\ Val(response).written = <<"siteSettings">>
  /\ Val(response).rejected = <<"evil">>
  /\ kv["siteSettings"] = Some("5")
  /\ IsNone(kv["evil"])

====
